---- MODULE Spec2Model ----
(***************************************************************************)
(* Model of src/agent.py: the two tools of the text moderation agent,      *)
(* analyze_text and get_moderation_recommendation, run as coroutines that  *)
(* may interleave at their await points and that share one Deps record.    *)
(*                                                                         *)
(* Python values are records: None is [type |-> "NoneType"], a str is      *)
(* [type |-> "str", value |-> s], a dict is a record keyed by its keys.    *)
(* The object an external helper returns is opaque to agent.py; it is      *)
(* modelled as a token naming the helper and the invocation that awaited   *)
(* it, so that any two returned objects can be told apart.                 *)
(***************************************************************************)
EXTENDS Naturals, Sequences, FiniteSets

\* Number of tool invocations of one agent run that the model follows.
MaxInvocations == 2

Invocations == 1..MaxInvocations

\* Tenths: Deps.sensitivity_threshold defaults to 0.7.
DefaultSensitivityThreshold == 7

None == [type |-> "NoneType"]

Str(s) == [type |-> "str", value |-> s]

Texts == {Str("hello"), Str("insult")}

Contexts == {None, Str("forum")}

UserIds == {None, Str("u42")}

Actions == {Str("approve"), Str("flag_for_review"), Str("reject")}

\* The object returned to invocation i by external helper fn.
Ret(fn, i) == [type |-> "object", from |-> fn, call |-> i]

\* One part (a dict entry) of such an object.
Part(fn, i, key) == [type |-> "object", from |-> fn, call |-> i, key |-> key]

VARIABLES deps, tool, args, pc, locals, result, trace

vars == <<deps, tool, args, pc, locals, result, trace>>

\* class Deps, with the defaults of its declaration.
Deps(auto) ==
    [client |-> [type |-> "AsyncClient"],
     moderation_api_key |-> None,
     custom_content_policies |-> None,
     sensitivity_threshold |-> DefaultSensitivityThreshold,
     store_flagged_content |-> TRUE,
     auto_moderate |-> auto]

\* The local variables of a tool's frame before any is bound.
NoLocals ==
    [toxicity_result |-> None, sensitive_info |-> None, categories |-> None,
     decision |-> None, suggested_edits |-> None]

\* Arguments of analyze_text.
AnalyzeArgs ==
    {[text |-> t, context |-> c, user_id |-> u] :
        t \in Texts, c \in Contexts, u \in UserIds}

\* Mutant: the sensitive-information and category results land under each
\* other's key.
MakeAnalysisResult_Swapped(a, l) ==
    [text |-> a.text,
     toxicity |-> l.toxicity_result,
     sensitive_information |-> l.categories,
     categories |-> l.sensitive_info,
     context |-> a.context,
     user_id |-> a.user_id]

\* The dict analyze_text returns.
MakeAnalysisResult(a, l) ==
    [text |-> a.text,
     toxicity |-> l.toxicity_result,
     sensitive_information |-> l.sensitive_info,
     categories |-> l.categories,
     context |-> a.context,
     user_id |-> a.user_id]

\* An analysis result produced by an earlier run of analyze_text (invocation 0).
PriorAnalysis ==
    MakeAnalysisResult(
        [text |-> Str("spam"), context |-> None, user_id |-> None],
        [toxicity_result |-> Ret("check_text_toxicity", 0),
         sensitive_info |-> Ret("detect_sensitive_information", 0),
         categories |-> Ret("categorize_content", 0),
         decision |-> None, suggested_edits |-> None])

\* What get_moderation_decision may return to invocation i: a dict whose action
\* is one of the three moderation actions.
DecisionResults(i) ==
    {[action |-> a,
      confidence |-> Part("get_moderation_decision", i, "confidence"),
      reasons |-> Part("get_moderation_decision", i, "reasons"),
      policy_violations |-> Part("get_moderation_decision", i, "policy_violations")] :
        a \in Actions}

\* What suggest_content_edits may return to invocation i.
EditResults(i) == {Ret("suggest_content_edits", i), None}

\* What external helper fn may return to invocation i.
HelperResults(fn, i) ==
    CASE fn = "get_moderation_decision" -> DecisionResults(i)
      [] fn = "suggest_content_edits" -> EditResults(i)
      [] OTHER -> {Ret(fn, i)}

\* Mutant: "or" in place of "and".
ShouldSuggestEdits_Or(decision, d) ==
    decision.action # Str("approve") \/ d.auto_moderate

\* Mutant: the auto_moderate flag is not consulted.
ShouldSuggestEdits_IgnoresFlag(decision, d) ==
    decision.action # Str("approve")

\* The condition of the only branch of the program.
ShouldSuggestEdits(decision, d) ==
    decision.action # Str("approve") /\ d.auto_moderate

\* Mutant: the whole decision dict is stored where its action belongs.
MakeRecommendation_WholeDecision(analysis_result, decision, suggested_edits) ==
    [original_text |-> analysis_result.text,
     decision |-> decision,
     confidence |-> decision.confidence,
     reasons |-> decision.reasons,
     policy_violations |-> decision.policy_violations,
     suggested_edits |-> suggested_edits,
     toxicity_scores |-> analysis_result.toxicity,
     categories |-> analysis_result.categories]

\* Mutant: the copies of the analysis data land under each other's key.
MakeRecommendation_SwappedCopies(analysis_result, decision, suggested_edits) ==
    [original_text |-> analysis_result.text,
     decision |-> decision.action,
     confidence |-> decision.confidence,
     reasons |-> decision.reasons,
     policy_violations |-> decision.policy_violations,
     suggested_edits |-> suggested_edits,
     toxicity_scores |-> analysis_result.categories,
     categories |-> analysis_result.toxicity]

\* The dict get_moderation_recommendation returns.
MakeRecommendation(analysis_result, decision, suggested_edits) ==
    [original_text |-> analysis_result.text,
     decision |-> decision.action,
     confidence |-> decision.confidence,
     reasons |-> decision.reasons,
     policy_violations |-> decision.policy_violations,
     suggested_edits |-> suggested_edits,
     toxicity_scores |-> analysis_result.toxicity,
     categories |-> analysis_result.categories]

\* Events of an invocation's trace: an external helper is called with
\* arguments, returns a value to the awaiting tool, or raises into it.
CallEv(fn, a) == [ev |-> "call", fn |-> fn, data |-> a]

ReturnEv(fn, v) == [ev |-> "return", fn |-> fn, data |-> v]

RaiseEv(fn) == [ev |-> "raise", fn |-> fn, data |-> None]

\* Mutant: the tools keep their intermediate results in one shared place.
Frame_Shared(i) == 1

\* The frame that holds the local variables of invocation i: every call of a
\* coroutine function has a frame of its own.
Frame(i) == i

\* The helper an invocation is suspended on, by program position.
Awaited(p) ==
    CASE p = "await_toxicity" -> "check_text_toxicity"
      [] p = "await_sensitive" -> "detect_sensitive_information"
      [] p = "await_categories" -> "categorize_content"
      [] p = "await_decision" -> "get_moderation_decision"
      [] p = "await_edits" -> "suggest_content_edits"
      [] OTHER -> "none"

AnalyzeAwaits == {"await_toxicity", "await_sensitive", "await_categories"}

RecommendAwaits == {"await_decision", "await_edits"}

\* Invocation ids are handed out in order of the calls.
MayStart(i) == pc[i] = "idle" /\ \A j \in Invocations : j < i => pc[j] # "idle"

\* The analysis results a caller can pass on: the prior one and those
\* analyze_text has returned in this run.
ProducedAnalyses ==
    {PriorAnalysis} \cup
    {result[j] : j \in {k \in Invocations :
                          tool[k] = "analyze_text" /\ pc[k] = "returned"}}

Init ==
    /\ deps \in {Deps(b) : b \in BOOLEAN}
    /\ tool = [i \in Invocations |-> "none"]
    /\ args = [i \in Invocations |-> None]
    /\ pc = [i \in Invocations |-> "idle"]
    /\ locals = [i \in Invocations |-> NoLocals]
    /\ result = [i \in Invocations |-> None]
    /\ trace = [i \in Invocations |-> <<>>]

\* Mutant: the first two helpers are started together.
CallAnalyzeText_Gather(i) ==
    /\ MayStart(i)
    /\ \E a \in AnalyzeArgs :
        /\ args' = [args EXCEPT ![i] = a]
        /\ trace' = [trace EXCEPT ![i] =
                        <<CallEv("check_text_toxicity", [text |-> a.text]),
                          CallEv("detect_sensitive_information", [text |-> a.text])>>]
    /\ tool' = [tool EXCEPT ![i] = "analyze_text"]
    /\ pc' = [pc EXCEPT ![i] = "await_toxicity"]
    /\ UNCHANGED <<deps, locals, result>>

\* analyze_text is called and runs to its first await.
CallAnalyzeText(i) ==
    /\ MayStart(i)
    /\ \E a \in AnalyzeArgs :
        /\ args' = [args EXCEPT ![i] = a]
        /\ trace' = [trace EXCEPT ![i] =
                        <<CallEv("check_text_toxicity", [text |-> a.text])>>]
    /\ tool' = [tool EXCEPT ![i] = "analyze_text"]
    /\ pc' = [pc EXCEPT ![i] = "await_toxicity"]
    /\ UNCHANGED <<deps, locals, result>>

\* check_text_toxicity returns; detect_sensitive_information is called.
ToxicityReturns(i) ==
    /\ tool[i] = "analyze_text" /\ pc[i] = "await_toxicity"
    /\ \E v \in HelperResults("check_text_toxicity", i) :
        /\ locals' = [locals EXCEPT ![Frame(i)].toxicity_result = v]
        /\ trace' = [trace EXCEPT ![i] = @ \o
                        <<ReturnEv("check_text_toxicity", v),
                          CallEv("detect_sensitive_information",
                                 [text |-> args[i].text])>>]
    /\ pc' = [pc EXCEPT ![i] = "await_sensitive"]
    /\ UNCHANGED <<deps, tool, args, result>>

\* detect_sensitive_information returns; categorize_content is called.
SensitiveReturns(i) ==
    /\ tool[i] = "analyze_text" /\ pc[i] = "await_sensitive"
    /\ \E v \in HelperResults("detect_sensitive_information", i) :
        /\ locals' = [locals EXCEPT ![Frame(i)].sensitive_info = v]
        /\ trace' = [trace EXCEPT ![i] = @ \o
                        <<ReturnEv("detect_sensitive_information", v),
                          CallEv("categorize_content",
                                 [text |-> args[i].text,
                                  context |-> args[i].context])>>]
    /\ pc' = [pc EXCEPT ![i] = "await_categories"]
    /\ UNCHANGED <<deps, tool, args, result>>

\* categorize_content returns; analyze_text returns its dict.
CategoriesReturn(i) ==
    /\ tool[i] = "analyze_text" /\ pc[i] = "await_categories"
    /\ \E v \in HelperResults("categorize_content", i) :
        /\ locals' = [locals EXCEPT ![Frame(i)].categories = v]
        /\ trace' = [trace EXCEPT ![i] = @ \o <<ReturnEv("categorize_content", v)>>]
        /\ result' = [result EXCEPT ![i] = MakeAnalysisResult(args[i], locals'[Frame(i)])]
    /\ pc' = [pc EXCEPT ![i] = "returned"]
    /\ UNCHANGED <<deps, tool, args>>

\* Mutant: the exception is caught and what was gathered so far is returned.
AnalyzeRaises_Caught(i) ==
    /\ tool[i] = "analyze_text" /\ pc[i] \in AnalyzeAwaits
    /\ trace' = [trace EXCEPT ![i] = Append(@, RaiseEv(Awaited(pc[i])))]
    /\ pc' = [pc EXCEPT ![i] = "returned"]
    /\ result' = [result EXCEPT ![i] = MakeAnalysisResult(args[i], locals[Frame(i)])]
    /\ UNCHANGED <<deps, tool, args, locals>>

\* The awaited helper raises: nothing in analyze_text catches it.
AnalyzeRaises(i) ==
    /\ tool[i] = "analyze_text" /\ pc[i] \in AnalyzeAwaits
    /\ trace' = [trace EXCEPT ![i] = Append(@, RaiseEv(Awaited(pc[i])))]
    /\ pc' = [pc EXCEPT ![i] = "raised"]
    /\ UNCHANGED <<deps, tool, args, locals, result>>

\* get_moderation_recommendation is called and runs to its first await.
CallGetModerationRecommendation(i) ==
    /\ MayStart(i)
    /\ \E a \in ProducedAnalyses :
        /\ args' = [args EXCEPT ![i] = [analysis_result |-> a]]
        /\ trace' = [trace EXCEPT ![i] =
                        <<CallEv("get_moderation_decision", [analysis_result |-> a])>>]
    /\ tool' = [tool EXCEPT ![i] = "get_moderation_recommendation"]
    /\ pc' = [pc EXCEPT ![i] = "await_decision"]
    /\ UNCHANGED <<deps, locals, result>>

\* get_moderation_decision returns; suggested_edits is set to None; either
\* suggest_content_edits is called or the recommendation is returned.
DecisionReturns(i) ==
    /\ tool[i] = "get_moderation_recommendation" /\ pc[i] = "await_decision"
    /\ \E v \in HelperResults("get_moderation_decision", i) :
        /\ locals' = [locals EXCEPT ![Frame(i)].decision = v,
                                    ![Frame(i)].suggested_edits = None]
        /\ IF ShouldSuggestEdits(locals'[Frame(i)].decision, deps)
           THEN /\ trace' = [trace EXCEPT ![i] = @ \o
                                <<ReturnEv("get_moderation_decision", v),
                                  CallEv("suggest_content_edits",
                                         [text |-> args[i].analysis_result.text,
                                          reasons |-> locals'[Frame(i)].decision.reasons])>>]
                /\ pc' = [pc EXCEPT ![i] = "await_edits"]
                /\ UNCHANGED result
           ELSE /\ trace' = [trace EXCEPT ![i] =
                                Append(@, ReturnEv("get_moderation_decision", v))]
                /\ pc' = [pc EXCEPT ![i] = "returned"]
                /\ result' = [result EXCEPT ![i] =
                                MakeRecommendation(args[i].analysis_result,
                                                   locals'[Frame(i)].decision,
                                                   locals'[Frame(i)].suggested_edits)]
    /\ UNCHANGED <<deps, tool, args>>

\* Mutant: auto_moderate is switched off once edits have been suggested.
EditsReturn_ClearsFlag(i) ==
    /\ tool[i] = "get_moderation_recommendation" /\ pc[i] = "await_edits"
    /\ \E v \in HelperResults("suggest_content_edits", i) :
        /\ locals' = [locals EXCEPT ![Frame(i)].suggested_edits = v]
        /\ trace' = [trace EXCEPT ![i] = Append(@, ReturnEv("suggest_content_edits", v))]
        /\ result' = [result EXCEPT ![i] =
                        MakeRecommendation(args[i].analysis_result,
                                           locals'[Frame(i)].decision,
                                           locals'[Frame(i)].suggested_edits)]
    /\ pc' = [pc EXCEPT ![i] = "returned"]
    /\ deps' = [deps EXCEPT !.auto_moderate = FALSE]
    /\ UNCHANGED <<tool, args>>

\* suggest_content_edits returns; the recommendation is returned.
EditsReturn(i) ==
    /\ tool[i] = "get_moderation_recommendation" /\ pc[i] = "await_edits"
    /\ \E v \in HelperResults("suggest_content_edits", i) :
        /\ locals' = [locals EXCEPT ![Frame(i)].suggested_edits = v]
        /\ trace' = [trace EXCEPT ![i] = Append(@, ReturnEv("suggest_content_edits", v))]
        /\ result' = [result EXCEPT ![i] =
                        MakeRecommendation(args[i].analysis_result,
                                           locals'[Frame(i)].decision,
                                           locals'[Frame(i)].suggested_edits)]
    /\ pc' = [pc EXCEPT ![i] = "returned"]
    /\ UNCHANGED <<deps, tool, args>>

\* Mutant: a failed edit suggestion falls back to a recommendation without edits.
RecommendRaises_Fallback(i) ==
    /\ tool[i] = "get_moderation_recommendation" /\ pc[i] \in RecommendAwaits
    /\ trace' = [trace EXCEPT ![i] = Append(@, RaiseEv(Awaited(pc[i])))]
    /\ IF pc[i] = "await_edits"
       THEN /\ pc' = [pc EXCEPT ![i] = "returned"]
            /\ result' = [result EXCEPT ![i] =
                            MakeRecommendation(args[i].analysis_result,
                                               locals[Frame(i)].decision, None)]
       ELSE /\ pc' = [pc EXCEPT ![i] = "raised"]
            /\ UNCHANGED result
    /\ UNCHANGED <<deps, tool, args, locals>>

\* The awaited helper raises: nothing in get_moderation_recommendation catches it.
RecommendRaises(i) ==
    /\ tool[i] = "get_moderation_recommendation" /\ pc[i] \in RecommendAwaits
    /\ trace' = [trace EXCEPT ![i] = Append(@, RaiseEv(Awaited(pc[i])))]
    /\ pc' = [pc EXCEPT ![i] = "raised"]
    /\ UNCHANGED <<deps, tool, args, locals, result>>

Next ==
    \E i \in Invocations :
        \/ CallAnalyzeText(i)
        \/ ToxicityReturns(i)
        \/ SensitiveReturns(i)
        \/ CategoriesReturn(i)
        \/ AnalyzeRaises(i)
        \/ CallGetModerationRecommendation(i)
        \/ DecisionReturns(i)
        \/ EditsReturn(i)
        \/ RecommendRaises(i)

Spec == Init /\ [][Next]_vars

(***************************************************************************)
(* Properties.  They are stated over each invocation's arguments, result   *)
(* and trace, not over the operators the actions are built from.           *)
(***************************************************************************)

Analyzes == {i \in Invocations : tool[i] = "analyze_text"}

Recommends == {i \in Invocations : tool[i] = "get_moderation_recommendation"}

\* Positions of invocation i's trace holding an event of kind ev of helper fn.
At(i, ev, fn) ==
    {k \in DOMAIN trace[i] : trace[i][k].ev = ev /\ trace[i][k].fn = fn}

\* Values helper fn has returned to invocation i.
Returned(i, fn) == {trace[i][k].data : k \in At(i, "return", fn)}

\* Positions of the raise events of invocation i's trace.
Raises(i) == {k \in DOMAIN trace[i] : trace[i][k].ev = "raise"}

\* Number of helper calls of invocation i that have not completed.
InFlight(i) ==
    Cardinality({k \in DOMAIN trace[i] : trace[i][k].ev = "call"})
    - Cardinality({k \in DOMAIN trace[i] : trace[i][k].ev # "call"})

IsPrefix(s, t) == Len(s) <= Len(t) /\ \A k \in 1..Len(s) : s[k] = t[k]

\* C1: a returned recommendation has non-null suggested_edits only when the
\* action the decision function returned is not "approve" and auto_moderate
\* is true; with auto_moderate false suggested_edits is null whatever the action.
C1_SuggestedEditsOnlyWhenFlaggedAndAuto ==
    \A i \in Recommends : pc[i] = "returned" =>
        /\ result[i].suggested_edits # None =>
             /\ \A d \in Returned(i, "get_moderation_decision") :
                    d.action # Str("approve")
             /\ deps.auto_moderate
        /\ ~deps.auto_moderate => result[i].suggested_edits = None

C1_Witness ==
    \E i \in Recommends :
        /\ pc[i] = "returned"
        /\ result[i].suggested_edits # None
        /\ result[i].decision = Str("reject")

AnalysisKeys ==
    {"text", "toxicity", "sensitive_information", "categories", "context", "user_id"}

\* C2: a result of analyze_text has exactly the six keys; text, context and
\* user_id are the call's arguments and toxicity, sensitive_information and
\* categories are what the three helpers returned to that call.
C2_AnalysisResultShape ==
    \A i \in Analyzes : pc[i] = "returned" =>
        /\ DOMAIN result[i] = AnalysisKeys
        /\ result[i].text = args[i].text
        /\ result[i].context = args[i].context
        /\ result[i].user_id = args[i].user_id
        /\ Returned(i, "check_text_toxicity") = {result[i].toxicity}
        /\ Returned(i, "detect_sensitive_information") = {result[i].sensitive_information}
        /\ Returned(i, "categorize_content") = {result[i].categories}

C2_Witness ==
    \E i \in Analyzes :
        /\ pc[i] = "returned"
        /\ result[i].context # None
        /\ result[i].user_id = None

\* The branch condition, read off the trace: the decision returned to i asks
\* for edits under the Deps in force.
EditsDue(i) ==
    \E d \in Returned(i, "get_moderation_decision") :
        d.action # Str("approve") /\ deps.auto_moderate

\* C3: within one get_moderation_recommendation call suggest_content_edits is
\* called iff the returned action is not "approve" and auto_moderate is set;
\* then exactly once, after the decision call completed and before the return.
C3_EditsCalledIffFlaggedAndAuto ==
    \A i \in Recommends :
        /\ Cardinality(At(i, "call", "suggest_content_edits")) <= 1
        /\ \A k \in At(i, "call", "suggest_content_edits") :
               /\ EditsDue(i)
               /\ \E m \in At(i, "return", "get_moderation_decision") : m < k
        /\ EditsDue(i) => At(i, "call", "suggest_content_edits") # {}
        /\ (pc[i] = "returned" /\ EditsDue(i)) =>
               At(i, "return", "suggest_content_edits") # {}

C3_Witness ==
    \E i \in Recommends :
        /\ pc[i] = "returned"
        /\ At(i, "call", "suggest_content_edits") = {3}
        /\ At(i, "return", "suggest_content_edits") = {4}

AnalyzeOrder ==
    <<"check_text_toxicity", "detect_sensitive_information", "categorize_content">>

\* The events of an analyze_text call in which every helper returns.
AnalyzeSchedule ==
    <<[ev |-> "call", fn |-> AnalyzeOrder[1]], [ev |-> "return", fn |-> AnalyzeOrder[1]],
      [ev |-> "call", fn |-> AnalyzeOrder[2]], [ev |-> "return", fn |-> AnalyzeOrder[2]],
      [ev |-> "call", fn |-> AnalyzeOrder[3]], [ev |-> "return", fn |-> AnalyzeOrder[3]]>>

\* Invocation i's trace without the data, and with a raise read as the
\* completion of the call it belongs to.
Completions(i) ==
    [k \in DOMAIN trace[i] |->
        [ev |-> IF trace[i][k].ev = "raise" THEN "return" ELSE trace[i][k].ev,
         fn |-> trace[i][k].fn]]

\* C4: analyze_text calls the three helpers once each, in the order toxicity,
\* sensitive information, categories; each call starts only after the previous
\* one completed, at most one is in flight, and the result is returned only
\* after all three completed.
C4_AnalyzeCallsSequential ==
    \A i \in Analyzes :
        /\ IsPrefix(Completions(i), AnalyzeSchedule)
        /\ InFlight(i) \in {0, 1}
        /\ pc[i] = "returned" => (Len(trace[i]) = Len(AnalyzeSchedule) /\ Raises(i) = {})
        /\ pc[i] # "returned" => result[i] = None

C4_Witness ==
    \E i \in Analyzes :
        /\ pc[i] = "returned"
        /\ \A k \in 1..Len(AnalyzeOrder) :
              /\ At(i, "call", AnalyzeOrder[k]) = {2 * k - 1}
              /\ At(i, "return", AnalyzeOrder[k]) = {2 * k}

\* C5: when a helper awaited by analyze_text raises, the call ends in failure
\* with no result, full or partial; the failed helper is not called again and
\* no later helper is called.
C5_AnalyzeFailurePropagates ==
    \A i \in Analyzes :
        /\ \A k \in Raises(i) :
               k = Len(trace[i]) /\ pc[i] = "raised" /\ result[i] = None
        /\ \A k \in 1..Len(AnalyzeOrder) :
               Cardinality(At(i, "call", AnalyzeOrder[k])) <= 1
        /\ pc[i] = "raised" => Raises(i) # {}

C5_Witness ==
    \E i \in Analyzes :
        /\ pc[i] = "raised"
        /\ At(i, "return", "check_text_toxicity") = {2}
        /\ At(i, "raise", "detect_sensitive_information") = {4}
        /\ At(i, "call", "categorize_content") = {}

C7_DepsImmutable == [][deps' = deps]_vars

C7_Witness ==
    \E i, j \in Invocations :
        /\ pc[i] = "returned" /\ tool[i] = "get_moderation_recommendation"
        /\ At(i, "return", "suggest_content_edits") # {}
        /\ pc[j] = "raised"
        /\ deps = Deps(TRUE)

\* C8: when the decision call raises, suggest_content_edits is never called and
\* nothing is returned; when the edit call raises, nothing is returned either
\* (no fallback to suggested_edits null); neither call is made twice.
C8_RecommendFailurePropagates ==
    \A i \in Recommends :
        /\ \A k \in Raises(i) :
               k = Len(trace[i]) /\ pc[i] = "raised" /\ result[i] = None
        /\ At(i, "raise", "get_moderation_decision") # {} =>
               At(i, "call", "suggest_content_edits") = {}
        /\ Cardinality(At(i, "call", "get_moderation_decision")) <= 1
        /\ Cardinality(At(i, "call", "suggest_content_edits")) <= 1
        /\ pc[i] = "raised" => Raises(i) # {}

C8_Witness ==
    \E i \in Recommends :
        /\ pc[i] = "raised"
        /\ At(i, "return", "get_moderation_decision") = {2}
        /\ At(i, "raise", "suggest_content_edits") = {4}
        /\ result[i] = None

RecommendationKeys ==
    {"original_text", "decision", "confidence", "reasons", "policy_violations",
     "suggested_edits", "toxicity_scores", "categories"}

\* C9: a returned recommendation has exactly the eight keys; original_text,
\* toxicity_scores and categories are the input analysis result's text,
\* toxicity and categories; decision, confidence, reasons and
\* policy_violations are those the decision function returned to that call.
C9_RecommendationShape ==
    \A i \in Recommends : pc[i] = "returned" =>
        /\ DOMAIN result[i] = RecommendationKeys
        /\ result[i].original_text = args[i].analysis_result.text
        /\ result[i].toxicity_scores = args[i].analysis_result.toxicity
        /\ result[i].categories = args[i].analysis_result.categories
        /\ Returned(i, "get_moderation_decision") # {}
        /\ \A d \in Returned(i, "get_moderation_decision") :
               /\ result[i].decision = d.action
               /\ result[i].confidence = d.confidence
               /\ result[i].reasons = d.reasons
               /\ result[i].policy_violations = d.policy_violations

C9_Witness ==
    \E i \in Recommends :
        /\ pc[i] = "returned"
        /\ result[i].original_text = Str("insult")
        /\ result[i].toxicity_scores # PriorAnalysis.toxicity

\* The value helper fn returned to invocation i, None if it returned nothing.
ReturnedOrNone(i, fn) ==
    IF Returned(i, fn) = {} THEN None ELSE CHOOSE v \in Returned(i, fn) : TRUE

\* What invocation i returns when run alone with its own arguments and the
\* values its own helper calls returned.
RunAlone(i) ==
    IF tool[i] = "analyze_text"
    THEN [text |-> args[i].text,
          toxicity |-> ReturnedOrNone(i, "check_text_toxicity"),
          sensitive_information |-> ReturnedOrNone(i, "detect_sensitive_information"),
          categories |-> ReturnedOrNone(i, "categorize_content"),
          context |-> args[i].context,
          user_id |-> args[i].user_id]
    ELSE [original_text |-> args[i].analysis_result.text,
          decision |-> ReturnedOrNone(i, "get_moderation_decision").action,
          confidence |-> ReturnedOrNone(i, "get_moderation_decision").confidence,
          reasons |-> ReturnedOrNone(i, "get_moderation_decision").reasons,
          policy_violations |->
              ReturnedOrNone(i, "get_moderation_decision").policy_violations,
          suggested_edits |-> ReturnedOrNone(i, "suggest_content_edits"),
          toxicity_scores |-> args[i].analysis_result.toxicity,
          categories |-> args[i].analysis_result.categories]

\* C10: however the invocations interleave at their awaits, each returns what
\* it would return run alone: nothing in its result belongs to another one.
C10_InvocationsIndependent ==
    \A i \in Invocations : pc[i] = "returned" => result[i] = RunAlone(i)

\* Invocation i ran from call to return while the earlier j stayed suspended.
C10_Witness ==
    \E i, j \in Invocations :
        /\ j < i
        /\ pc[i] = "returned"
        /\ pc[j] \in AnalyzeAwaits \cup RecommendAwaits
        /\ tool[i] = tool[j]

====
